---- MODULE Spec2Model ----
(***************************************************************************)
(* A model of fuzz_runner.py: the fuzzing campaign run_fuzz drives against *)
(* the external harness ./zemacs-fuzz.  The single Python thread is a      *)
(* program counter pc; the target processes, the crashes/ directory and    *)
(* the random module are state.  Payload lengths, the iteration budget and *)
(* the progress interval are scaled down (RawMaxLen stands for 1024,       *)
(* JsonMinLen..JsonMaxLen for 10..1000, ProgressEvery for 1000); the       *)
(* control flow is that of the source.                                     *)
(***************************************************************************)
EXTENDS Integers, Sequences, FiniteSets, TLC

\* ---------------------------------------------------------------- bounds
MaxIterations == 3      \* ITERATIONS ranges over 0..MaxIterations
MaxSeed == 2            \* random.seed(k), k in 0..MaxSeed
MaxEntropy == 1         \* os.urandom draws one of MaxEntropy+1 byte strings
RawMaxLen == 2          \* upper length of random.randint(1, 1024), scaled
ProgressEvery == 2      \* the 1000 of "i % 1000 == 0", scaled

\* ------------------------------------------------------ program constants
RawMinLen == 1
RawThreshold == 5       \* rand < 0.5, in tenths
JsonThreshold == 9      \* rand < 0.9, in tenths
RandScale == 10         \* random.random() is modelled in tenths of [0,1)
RngModulus == 16        \* size of the generator's state space (abstracted)
JsonMinLen == RawMinLen + 1   \* 10 >= 1, scaled
JsonMaxLen == RawMaxLen       \* 1000 <= 1024, scaled

\* b"{}\"':,[]0123456789abcdef" as byte values
chars ==
  << 123, 125, 34, 39, 58, 44, 91, 93,
     48, 49, 50, 51, 52, 53, 54, 55, 56, 57,
     97, 98, 99, 100, 101, 102 >>

\* the exit statuses a target may return within the deadline (-11: SIGSEGV)
ReturnCodes == {-11, 0, 1}

VARIABLES
  pc,          \* position of run_fuzz
  ITERATIONS,  \* the iteration budget
  i,           \* loop index
  rng,         \* state of the random module
  data,        \* payload of the current iteration
  strategy,    \* branch taken at lines 31-36 for the current payload
  process,     \* <<k>>: the Popen object of iteration k; <<>>: unbound
  returncode,  \* process.returncode: <<>> is None, <<c>> is c
  procs,       \* iteration |-> "none" | "running" | "killed" | "reaped"
  active,      \* subprocess._active: unreaped Popen objects already dropped
  crashes,     \* the crash counter
  dirExists,   \* os.path.exists(CRASHES_DIR)
  files,       \* CRASHES_DIR: file name |-> content on disk
  handle,      \* the file object f of the with block
  printed,     \* iterations for which "Completed i iterations..." was printed
  verdict,     \* "none" | "Success" | "FailureDetected"
  exitcode,    \* exit status of the campaign process: <<>> while running
  payloads,    \* history: the payload given to communicate(), per iteration
  outcomes,    \* history: what the target did, per iteration
  execLog,     \* history: the iteration index of every successful Popen
  written,     \* history: every open(..., "wb"): [name, iter, closed]
  runA,        \* generation alone, run once from the seed: [rng, out]
  runB         \* generation alone, run again from the same seed

vars ==
  << pc, ITERATIONS, i, rng, data, strategy, process, returncode, procs,
     active, crashes, dirExists, files, handle, printed, verdict, exitcode,
     payloads, outcomes, execLog, written, runA, runB >>

\* ------------------------------------------------------------ the generator
\* random.seed(k): the state a seed puts the generator in
seed(k) == (k * 5 + 15) % RngModulus

\* the generator's step: every call of random.* consumes one state
NextRng(s) == (s * 5 + 3) % RngModulus

\* random.random(), in tenths
random(s) == (s * RandScale) \div RngModulus

\* random.randint(a, b)
randint(s, a, b) == a + (s * (b - a + 1)) \div RngModulus

\* random.choice(seq)
choice(s, seq) == seq[1 + (s * Len(seq)) \div RngModulus]

\* os.urandom(length): bytes from the OS entropy pool, independent of rng
generate_garbage(length) ==
  { [k \in 1..length |-> (e + k) % 256] : e \in 0..MaxEntropy }

RECURSIVE json_bytes(_, _)
json_bytes(s, n) ==
  IF n = 0 THEN <<>>
  ELSE <<choice(s, chars)>> \o json_bytes(NextRng(s), n - 1)

RECURSIVE Advance(_, _)
Advance(s, n) == IF n = 0 THEN s ELSE Advance(NextRng(s), n - 1)

\* generate_json_garbage(), from generator state s: the bytes and the state left
generate_json_garbage(s) ==
  LET length == randint(s, JsonMinLen, JsonMaxLen)
  IN  [ data |-> json_bytes(NextRng(s), length),
        rng  |-> Advance(NextRng(s), length) ]

\* Generate with line 17 as random.randint(0, 1000): structured noise may be
\* shorter than its lower bound, down to no bytes at all
GenerateJsonFromZero(s) ==
  LET rand == random(s)
      s1   == NextRng(s)
      length == randint(s1, 0, JsonMaxLen)
  IN  IF rand < RawThreshold
      THEN { [ strategy |-> "raw", data |-> d, rng |-> NextRng(s1) ] :
               d \in generate_garbage(randint(s1, RawMinLen, RawMaxLen)) }
      ELSE IF rand < JsonThreshold
      THEN { [ strategy |-> "json",
               data |-> json_bytes(NextRng(s1), length),
               rng  |-> Advance(NextRng(s1), length) ] }
      ELSE { [ strategy |-> "empty", data |-> <<>>, rng |-> s1 ] }

\* lines 30-36: the payloads one iteration may generate from generator state s
Generate(s) ==
  LET rand == random(s)
      s1   == NextRng(s)
  IN  IF rand < RawThreshold
      THEN { [ strategy |-> "raw", data |-> d, rng |-> NextRng(s1) ] :
               d \in generate_garbage(randint(s1, RawMinLen, RawMaxLen)) }
      ELSE IF rand < JsonThreshold
      THEN { [ strategy |-> "json",
               data |-> generate_json_garbage(s1).data,
               rng  |-> generate_json_garbage(s1).rng ] }
      ELSE { [ strategy |-> "empty", data |-> <<>>, rng |-> s1 ] }

\* ------------------------------------------------------------- the corpus
\* FileName without the iteration index in the name
FileNameNoIndex(kind, k) == <<kind, 0>>

FileName(kind, k) == <<kind, k>>     \* f"{CRASHES_DIR}/{kind}_{k}.bin"

EmptyDir == [n \in {} |-> <<>>]

StaleDir == [n \in {FileName("crash", 0)} |-> <<255>>]

WriteFile(fs, name, content) ==
  [n \in (DOMAIN fs) \cup {name} |-> IF n = name THEN content ELSE fs[n]]

NoHandle == [open |-> FALSE, name |-> FileName("", 0), buf |-> <<>>]

\* the strict prefixes of a byte string: what a failed flush may leave
Prefixes(d) == { SubSeq(d, 1, n) : n \in 0..(Len(d) - 1) }

\* ------------------------------------------------------------------- Init
Init ==
  /\ pc = "start"
  /\ ITERATIONS \in 0..MaxIterations
  /\ i = 0
  /\ \E k \in 0..MaxSeed : rng = seed(k)
  /\ data = <<>>
  /\ strategy = "none"
  /\ process = <<>>
  /\ returncode = <<>>
  /\ procs = [k \in 0..(ITERATIONS - 1) |-> "none"]
  /\ active = {}
  /\ crashes = 0
  /\ \/ dirExists = FALSE /\ files = EmptyDir
     \/ dirExists = TRUE /\ files = StaleDir
  /\ handle = NoHandle
  /\ printed = {}
  /\ verdict = "none"
  /\ exitcode = <<>>
  /\ payloads = <<>>
  /\ outcomes = <<>>
  /\ execLog = <<>>
  /\ written = <<>>
  /\ runA = [rng |-> rng, out |-> <<>>]
  /\ runB = runA

\* ---------------------------------------------------------------- actions
\* lines 21-26
Start ==
  /\ pc = "start"
  /\ dirExists' = TRUE
  /\ pc' = "loop"
  /\ UNCHANGED << ITERATIONS, i, rng, data, strategy, process, returncode,
                  procs, active, crashes, files, handle, printed, verdict,
                  exitcode, payloads, outcomes, execLog, written, runA,
                  runB >>

\* GeneratePayload with "if not data: continue" after line 36
GeneratePayloadSkipEmpty ==
  /\ pc = "loop"
  /\ i < ITERATIONS
  /\ \E g \in Generate(rng) :
       /\ data' = g.data
       /\ strategy' = g.strategy
       /\ rng' = g.rng
       /\ i' = IF g.data = <<>> THEN i + 1 ELSE i
       /\ pc' = IF g.data = <<>> THEN "loop" ELSE "spawn"
  /\ UNCHANGED << ITERATIONS, process, returncode, procs, active, crashes,
                  dirExists, files, handle, printed, verdict, exitcode,
                  payloads, outcomes, execLog, written, runA, runB >>

\* lines 28-36: the loop head and the payload
GeneratePayload ==
  /\ pc = "loop"
  /\ i < ITERATIONS
  /\ \E g \in Generate(rng) :
       /\ data' = g.data
       /\ strategy' = g.strategy
       /\ rng' = g.rng
  /\ pc' = "spawn"
  /\ UNCHANGED << ITERATIONS, i, process, returncode, procs, active, crashes,
                  dirExists, files, handle, printed, verdict, exitcode,
                  payloads, outcomes, execLog, written, runA, runB >>

\* Popen.__init__ begins with _cleanup(): the dropped objects whose process
\* has died by now are reaped and leave _active
Cleanup(dead) == [k \in DOMAIN procs |-> IF k \in dead THEN "reaped" ELSE procs[k]]

\* lines 38-43: Popen succeeds; the previous Popen object loses its last
\* reference on the assignment, and its __del__ polls it once: a killed process
\* that has died is reaped, one that has not goes to _active
Spawn ==
  /\ pc = "spawn"
  /\ \E dead \in SUBSET active, oldDead \in BOOLEAN :
       LET cleaned == Cleanup(dead)
           unreaped == process # <<>> /\ procs[process[1]] = "killed"
       IN  /\ unreaped \/ oldDead
           /\ procs' = [k \in DOMAIN procs |->
                          IF k = i THEN "running"
                          ELSE IF unreaped /\ oldDead /\ k = process[1]
                          THEN "reaped" ELSE cleaned[k]]
           /\ active' = (active \ dead) \cup
                          (IF unreaped /\ ~oldDead THEN {process[1]} ELSE {})
  /\ process' = <<i>>
  /\ returncode' = <<>>
  /\ execLog' = Append(execLog, i)
  /\ pc' = "communicate"
  /\ UNCHANGED << ITERATIONS, i, rng, data, strategy, crashes, dirExists,
                  files, handle, printed, verdict, exitcode, payloads,
                  outcomes, written, runA, runB >>

\* lines 38-43: Popen raises (executable missing, fork failure); the exception
\* is not caught and the interpreter exits with status 1
SpawnFault ==
  /\ pc = "spawn"
  /\ \E dead \in SUBSET active :
       /\ procs' = Cleanup(dead)
       /\ active' = active \ dead
  /\ pc' = "aborted"
  /\ exitcode' = <<1>>
  /\ UNCHANGED << ITERATIONS, i, rng, data, strategy, process, returncode,
                  crashes, dirExists, files, handle, printed, verdict,
                  payloads, outcomes, execLog, written, runA, runB >>

\* line 45: the target exits within the deadline; communicate() waits for it
CommunicateExit ==
  /\ pc = "communicate"
  /\ \E c \in ReturnCodes :
       /\ returncode' = <<c>>
       /\ outcomes' = Append(outcomes, [timeout |-> FALSE, code |-> <<c>>])
  /\ procs' = [procs EXCEPT ![i] = "reaped"]
  /\ payloads' = Append(payloads, data)
  /\ pc' = "check"
  /\ UNCHANGED << ITERATIONS, i, rng, data, strategy, process, active,
                  crashes, dirExists, files, handle, printed, verdict,
                  exitcode, execLog, written, runA, runB >>

\* lines 45-46: the deadline passes; TimeoutExpired, the target still running
CommunicateTimeout ==
  /\ pc = "communicate"
  /\ outcomes' = Append(outcomes, [timeout |-> TRUE, code |-> <<>>])
  /\ payloads' = Append(payloads, data)
  /\ pc' = "kill"
  /\ UNCHANGED << ITERATIONS, i, rng, data, strategy, process, returncode,
                  procs, active, crashes, dirExists, files, handle, printed,
                  verdict, exitcode, execLog, written, runA, runB >>

\* line 47 as process.wait(): the hanging target is waited for, not killed
KillWaitsForTarget ==
  /\ pc = "kill"
  /\ pc' = "blocked"
  /\ UNCHANGED << ITERATIONS, i, rng, data, strategy, process, returncode,
                  procs, active, crashes, dirExists, files, handle, printed,
                  verdict, exitcode, payloads, outcomes, execLog, written,
                  runA, runB >>

\* lines 47-48: SIGKILL is sent; nothing waits for the process
Kill ==
  /\ pc = "kill"
  /\ procs' = [procs EXCEPT ![process[1]] = "killed"]
  /\ pc' = "t_open"
  /\ UNCHANGED << ITERATIONS, i, rng, data, strategy, process, returncode,
                  active, crashes, dirExists, files, handle, printed, verdict,
                  exitcode, payloads, outcomes, execLog, written, runA,
                  runB >>

\* open(name, "wb"): the file is created or truncated
Open(at, kind, next) ==
  /\ pc = at
  /\ files' = WriteFile(files, FileName(kind, i), <<>>)
  /\ handle' = [open |-> TRUE, name |-> FileName(kind, i), buf |-> <<>>]
  /\ written' = Append(written, [name |-> FileName(kind, i), iter |-> i,
                                  closed |-> FALSE])
  /\ pc' = next
  /\ UNCHANGED << ITERATIONS, i, rng, data, strategy, process, returncode,
                  procs, active, crashes, dirExists, printed, verdict,
                  exitcode, payloads, outcomes, execLog, runA, runB >>

\* open(name, "wb") raises: nothing is created, the exception is not caught
OpenFault(at) ==
  /\ pc = at
  /\ pc' = "aborted"
  /\ exitcode' = <<1>>
  /\ UNCHANGED << ITERATIONS, i, rng, data, strategy, process, returncode,
                  procs, active, crashes, dirExists, files, handle, printed,
                  verdict, payloads, outcomes, execLog, written, runA,
                  runB >>

\* f.write(data): the bytes go to the file object's buffer
Write(at, next) ==
  /\ pc = at
  /\ handle' = [handle EXCEPT !.buf = data]
  /\ pc' = next
  /\ UNCHANGED << ITERATIONS, i, rng, data, strategy, process, returncode,
                  procs, active, crashes, dirExists, files, printed, verdict,
                  exitcode, payloads, outcomes, execLog, written, runA,
                  runB >>

\* the end of the with block: the buffer is flushed and the file closed
Close(at, next) ==
  /\ pc = at
  /\ files' = WriteFile(files, handle.name, handle.buf)
  /\ handle' = NoHandle
  /\ written' = [written EXCEPT ![Len(written)].closed = TRUE]
  /\ pc' = next
  /\ UNCHANGED << ITERATIONS, i, rng, data, strategy, process, returncode,
                  procs, active, crashes, dirExists, printed, verdict,
                  exitcode, payloads, outcomes, execLog, runA, runB >>

\* the flush at the end of the with block fails (disk full, I/O error): a
\* strict prefix of the payload is on disk, the exception is not caught
CloseFault(at) ==
  /\ pc = at
  /\ \E p \in Prefixes(handle.buf) :
       files' = WriteFile(files, handle.name, p)
  /\ handle' = NoHandle
  /\ pc' = "aborted"
  /\ exitcode' = <<1>>
  /\ UNCHANGED << ITERATIONS, i, rng, data, strategy, process, returncode,
                  procs, active, crashes, dirExists, printed, verdict,
                  payloads, outcomes, execLog, written, runA, runB >>

\* line 50 with the file name of line 57
TimeoutOpenAsCrash == Open("t_open", "crash", "t_write")

\* line 50
TimeoutOpen == Open("t_open", "timeout", "t_write")

TimeoutOpenFault == OpenFault("t_open")

\* line 51
TimeoutWrite == Write("t_write", "t_close")

\* the file of line 50 left open: no with block, nothing flushes the buffer
TimeoutCloseNoFlush ==
  /\ pc = "t_close"
  /\ pc' = "t_count"
  /\ UNCHANGED << ITERATIONS, i, rng, data, strategy, process, returncode,
                  procs, active, crashes, dirExists, files, handle, printed,
                  verdict, exitcode, payloads, outcomes, execLog, written,
                  runA, runB >>

TimeoutClose == Close("t_close", "t_count")

TimeoutCloseFault == CloseFault("t_close")

\* TimeoutCount with "break" in the place of "continue"
TimeoutCountStop ==
  /\ pc = "t_count"
  /\ crashes' = crashes + 1
  /\ i' = ITERATIONS
  /\ pc' = "loop"
  /\ UNCHANGED << ITERATIONS, rng, data, strategy, process, returncode,
                  procs, active, dirExists, files, handle, printed, verdict,
                  exitcode, payloads, outcomes, execLog, written, runA,
                  runB >>

\* TimeoutCount without line 52: a timeout is saved but not counted
TimeoutCountNoIncrement ==
  /\ pc = "t_count"
  /\ crashes' = crashes
  /\ i' = i + 1
  /\ pc' = "loop"
  /\ UNCHANGED << ITERATIONS, rng, data, strategy, process, returncode,
                  procs, active, dirExists, files, handle, printed, verdict,
                  exitcode, payloads, outcomes, execLog, written, runA,
                  runB >>

\* TimeoutCount without the continue of line 53: control falls to line 55
TimeoutCountFallThrough ==
  /\ pc = "t_count"
  /\ crashes' = crashes + 1
  /\ pc' = "check"
  /\ UNCHANGED << ITERATIONS, i, rng, data, strategy, process, returncode,
                  procs, active, dirExists, files, handle, printed, verdict,
                  exitcode, payloads, outcomes, execLog, written, runA,
                  runB >>

\* lines 52-53: count the timeout and continue with the next iteration
TimeoutCount ==
  /\ pc = "t_count"
  /\ crashes' = crashes + 1
  /\ i' = i + 1
  /\ pc' = "loop"
  /\ UNCHANGED << ITERATIONS, rng, data, strategy, process, returncode,
                  procs, active, dirExists, files, handle, printed, verdict,
                  exitcode, payloads, outcomes, execLog, written, runA,
                  runB >>

\* line 55 as "if process.returncode > 0": a death by signal is missed
CheckReturnPositive ==
  /\ pc = "check"
  /\ pc' = IF returncode[1] > 0 THEN "c_open" ELSE "progress"
  /\ UNCHANGED << ITERATIONS, i, rng, data, strategy, process, returncode,
                  procs, active, crashes, dirExists, files, handle, printed,
                  verdict, exitcode, payloads, outcomes, execLog, written,
                  runA, runB >>

\* line 55 as "if process.returncode is not None": every exit is saved
CheckReturnAnyStatus ==
  /\ pc = "check"
  /\ pc' = IF returncode # <<>> THEN "c_open" ELSE "progress"
  /\ UNCHANGED << ITERATIONS, i, rng, data, strategy, process, returncode,
                  procs, active, crashes, dirExists, files, handle, printed,
                  verdict, exitcode, payloads, outcomes, execLog, written,
                  runA, runB >>

\* line 55 as "if process.returncode == 0"
CheckReturnInverted ==
  /\ pc = "check"
  /\ pc' = IF returncode = <<0>> THEN "c_open" ELSE "progress"
  /\ UNCHANGED << ITERATIONS, i, rng, data, strategy, process, returncode,
                  procs, active, crashes, dirExists, files, handle, printed,
                  verdict, exitcode, payloads, outcomes, execLog, written,
                  runA, runB >>

\* lines 55-56: if process.returncode != 0
CheckReturn ==
  /\ pc = "check"
  /\ pc' = IF returncode # <<0>> THEN "c_open" ELSE "progress"
  /\ UNCHANGED << ITERATIONS, i, rng, data, strategy, process, returncode,
                  procs, active, crashes, dirExists, files, handle, printed,
                  verdict, exitcode, payloads, outcomes, execLog, written,
                  runA, runB >>

\* line 57
CrashOpen == Open("c_open", "crash", "c_write")

CrashOpenFault == OpenFault("c_open")

\* line 58
CrashWrite == Write("c_write", "c_close")

CrashClose == Close("c_close", "c_count")

CrashCloseFault == CloseFault("c_close")

\* line 59 counting the crash twice
CrashCountTwice ==
  /\ pc = "c_count"
  /\ crashes' = crashes + 2
  /\ pc' = "progress"
  /\ UNCHANGED << ITERATIONS, i, rng, data, strategy, process, returncode,
                  procs, active, dirExists, files, handle, printed, verdict,
                  exitcode, payloads, outcomes, execLog, written, runA,
                  runB >>

\* line 59
CrashCount ==
  /\ pc = "c_count"
  /\ crashes' = crashes + 1
  /\ pc' = "progress"
  /\ UNCHANGED << ITERATIONS, i, rng, data, strategy, process, returncode,
                  procs, active, dirExists, files, handle, printed, verdict,
                  exitcode, payloads, outcomes, execLog, written, runA,
                  runB >>

\* lines 61-62, and the loop's step to the next index
Progress ==
  /\ pc = "progress"
  /\ printed' = IF i % ProgressEvery = 0 THEN printed \cup {i} ELSE printed
  /\ i' = i + 1
  /\ pc' = "loop"
  /\ UNCHANGED << ITERATIONS, rng, data, strategy, process, returncode,
                  procs, active, crashes, dirExists, files, handle, verdict,
                  exitcode, payloads, outcomes, execLog, written, runA,
                  runB >>

\* lines 68-73
Verdict(c) == IF c = 0 THEN "Success" ELSE "FailureDetected"

ExitStatus(v) == IF v = "Success" THEN 0 ELSE 1

\* lines 64-73: the loop is over
Finish ==
  /\ pc = "loop"
  /\ i >= ITERATIONS
  /\ verdict' = Verdict(crashes)
  /\ exitcode' = <<ExitStatus(Verdict(crashes))>>
  /\ pc' = "done"
  /\ UNCHANGED << ITERATIONS, i, rng, data, strategy, process, returncode,
                  procs, active, crashes, dirExists, files, handle, printed,
                  payloads, outcomes, execLog, written, runA, runB >>

Stopped == pc \in {"done", "aborted", "interrupted"}

\* an external interrupt of the campaign process, at any point of run_fuzz.
\* SIGINT raises KeyboardInterrupt, and a with block that is open closes its
\* file on the way out (graceful); SIGKILL leaves the disk as it is
Interrupt ==
  /\ ~Stopped
  /\ pc # "start"
  /\ \E graceful \in BOOLEAN :
       /\ graceful => handle.open
       /\ files' = IF graceful
                   THEN WriteFile(files, handle.name, handle.buf)
                   ELSE files
       /\ handle' = IF graceful THEN NoHandle ELSE handle
  /\ pc' = "interrupted"
  /\ UNCHANGED << ITERATIONS, i, rng, data, strategy, process, returncode,
                  procs, active, crashes, dirExists, printed, verdict,
                  exitcode, payloads, outcomes, execLog, written, runA,
                  runB >>

Step ==
  \/ Start
  \/ GeneratePayload
  \/ Spawn
  \/ SpawnFault
  \/ CommunicateExit
  \/ CommunicateTimeout
  \/ Kill
  \/ TimeoutOpen
  \/ TimeoutOpenFault
  \/ TimeoutWrite
  \/ TimeoutClose
  \/ TimeoutCloseFault
  \/ TimeoutCount
  \/ CheckReturn
  \/ CrashOpen
  \/ CrashOpenFault
  \/ CrashWrite
  \/ CrashClose
  \/ CrashCloseFault
  \/ CrashCount
  \/ Progress
  \/ Finish

Next == Step \/ Interrupt

Spec == Init /\ [][Next]_vars

\* the interpreter runs the one thread of run_fuzz until it stops; an
\* interrupt is up to the environment
LiveSpec == Spec /\ WF_vars(Step)

\* lines 28-36 alone, twice from one seed: the next payload of either run
GenerateTwice ==
  /\ pc = "start"
  /\ Len(runA.out) < ITERATIONS
  /\ \E a \in Generate(runA.rng), b \in Generate(runB.rng) :
       /\ runA' = [rng |-> a.rng,
                   out |-> Append(runA.out,
                             [strategy |-> a.strategy, data |-> a.data])]
       /\ runB' = [rng |-> b.rng,
                   out |-> Append(runB.out,
                             [strategy |-> b.strategy, data |-> b.data])]
  /\ UNCHANGED << pc, ITERATIONS, i, rng, data, strategy, process, returncode,
                  procs, active, crashes, dirExists, files, handle, printed,
                  verdict, exitcode, payloads, outcomes, execLog, written >>

TwinNext == GenerateTwice

SpecTwin == Init /\ [][TwinNext]_vars

\* ------------------------------------------------------------ the outcomes
Iterations == 0..(Len(outcomes) - 1)

Outcome(j) == outcomes[j + 1]

IsTimeout(j) == Outcome(j).timeout

IsAbnormalExit(j) == ~Outcome(j).timeout /\ Outcome(j).code # <<0>>

IsNormal(j) == ~Outcome(j).timeout /\ Outcome(j).code = <<0>>

Failing(j) == IsTimeout(j) \/ IsAbnormalExit(j)

Count(n) == [k \in 1..n |-> k - 1]

\* the artifact name the code uses for a failing iteration j
ArtifactOf(j) == FileName(IF IsTimeout(j) THEN "timeout" ELSE "crash", j)

\* the names whose with block has been left normally: the save step is over
Saved == { written[n].name : n \in { k \in 1..Len(written) : written[k].closed } }

\* iteration j has been counted: crashes is incremented in iteration order
Recorded(j) ==
  /\ Failing(j)
  /\ Cardinality({ k \in Iterations : k <= j /\ Failing(k) }) <= crashes

\* processes that exist: running, or killed and not yet waited for
Alive == { k \in DOMAIN procs : procs[k] \in {"running", "killed"} }

\* the write log of a campaign that saved every iteration under one kind
AllSavedAs(kind) ==
  [ k \in 1..ITERATIONS |->
      [name |-> FileName(kind, k - 1), iter |-> k - 1, closed |-> TRUE] ]

\* ------------------------------------------------------------- properties
\* C1: the executions are those of iterations 0, 1, 2, ... in order, none
\* skipped and none repeated, whatever the targets did, and when the verdict
\* is reached there have been exactly ITERATIONS of them.
C1_ExactlyNExecutions ==
  /\ execLog = Count(Len(execLog))
  /\ pc = "done" => /\ Len(execLog) = ITERATIONS
                    /\ Len(outcomes) = ITERATIONS

C1_Witness ==
  /\ pc = "done"
  /\ ITERATIONS >= 3
  /\ IsTimeout(0)
  /\ IsAbnormalExit(1)
  /\ IsNormal(2)

\* C2: at the verdict, Success and exit status 0 go with a crash counter of 0,
\* FailureDetected and exit status 1 with any other; every timeout and every
\* abnormal exit has been counted, so one timeout is enough for
\* FailureDetected.
C2_VerdictIffNoCrash ==
  pc = "done" =>
    /\ verdict \in {"Success", "FailureDetected"}
    /\ (verdict = "Success") <=> (crashes = 0)
    /\ exitcode = <<IF crashes = 0 THEN 0 ELSE 1>>
    /\ crashes = Cardinality({j \in Iterations : Failing(j)})
    /\ (\E j \in Iterations : IsTimeout(j)) =>
         verdict = "FailureDetected" /\ exitcode = <<1>>

C2_Witness ==
  /\ pc = "done"
  /\ ITERATIONS >= 2
  /\ \E j \in Iterations : IsTimeout(j)
  /\ \A j \in Iterations : ~IsAbnormalExit(j)
  /\ verdict = "FailureDetected"
  /\ exitcode = <<1>>

\* C3: once the save step of a failing iteration is over, its file holds the
\* whole payload and is closed, in every later state (so also in the state an
\* interrupt leaves); the counter is incremented only after that, and an
\* iteration starts only when every earlier failing iteration has been saved.
C3_SavedBeforeCounted ==
  /\ \A j \in Iterations :
       (Failing(j) /\ ArtifactOf(j) \in Saved) =>
          /\ ArtifactOf(j) \in DOMAIN files
          /\ files[ArtifactOf(j)] = payloads[j + 1]
          /\ ~(handle.open /\ handle.name = ArtifactOf(j))
  /\ pc \in {"t_count", "c_count"} => Failing(i) /\ ArtifactOf(i) \in Saved
  /\ crashes <= Cardinality(Saved)
  /\ \A j \in Iterations : (j < i /\ Failing(j)) => ArtifactOf(j) \in Saved

C3_Witness ==
  /\ pc = "interrupted"
  /\ Len(outcomes) = 2
  /\ IsTimeout(0)
  /\ IsAbnormalExit(1)
  /\ ArtifactOf(1) \in Saved
  /\ crashes = 1
  /\ payloads[2] # <<>>

\* C4: in every state, every failing iteration that has been counted has a
\* file named after its index whose content is the payload given to the
\* target in that iteration.
C4_ArtifactEqualsPayload ==
  \A j \in Iterations :
    Recorded(j) =>
      \E kind \in {"timeout", "crash"} :
        /\ FileName(kind, j) \in DOMAIN files
        /\ files[FileName(kind, j)] = payloads[j + 1]

C4_Witness ==
  /\ Len(outcomes) = 3
  /\ crashes = 2
  /\ Recorded(0)
  /\ Recorded(1)
  /\ payloads[1] # payloads[2]
  /\ IsNormal(2)
  /\ pc = "done"

\* C5: at most one target process exists at any time, the process of every
\* iteration the loop has left has been waited for, and none exists once the
\* campaign has its verdict.
C5_OneProcessReaped ==
  /\ Cardinality(Alive) <= 1
  /\ \A k \in DOMAIN procs : k < i => procs[k] = "reaped"
  /\ pc = "done" => Alive = {}

\* C6: when a harness fault has aborted the campaign in iteration i, no later
\* iteration has been executed, the counter holds only the failures of the
\* iterations before i, no artifact has been created in iteration i, and no
\* verdict has been given.
C6_FaultAbortsCleanly ==
  pc = "aborted" =>
    /\ \A k \in 1..Len(execLog) : execLog[k] <= i
    /\ crashes = Cardinality({ j \in Iterations : j < i /\ Failing(j) })
    /\ \A k \in 1..Len(written) : written[k].iter # i
    /\ verdict = "none"

\* C7: two runs of the payload generation from one seed have generated the
\* same payloads, strategy by strategy and byte by byte.
C7_SameSeedSamePayloads == runA.out = runB.out

\* C8 as stated: whenever every execution exited non-zero, the verdict is
\* FailureDetected and the artifacts are crash_0 .. crash_{N-1}, for any N.
C8_AlwaysCrashing ==
  (pc = "done" /\ \A j \in Iterations : IsAbnormalExit(j)) =>
    /\ verdict = "FailureDetected"
    /\ written = AllSavedAs("crash")
    /\ \A j \in Iterations : files[FileName("crash", j)] = payloads[j + 1]

\* C8 amended: the same for a budget of at least one iteration.
C8_AlwaysCrashingPositiveBudget ==
  (pc = "done" /\ ITERATIONS >= 1 /\ \A j \in Iterations : IsAbnormalExit(j)) =>
    /\ verdict = "FailureDetected"
    /\ exitcode = <<1>>
    /\ written = AllSavedAs("crash")
    /\ \A j \in Iterations : files[FileName("crash", j)] = payloads[j + 1]

C8_Witness ==
  /\ pc = "done"
  /\ ITERATIONS = 3
  /\ \A j \in Iterations : IsAbnormalExit(j)
  /\ \E j \in Iterations : Outcome(j).code = <<-11>>
  /\ verdict = "FailureDetected"

\* C9: whenever every execution exited 0 within the deadline, the verdict is
\* Success with exit status 0, no file has been opened for writing and the
\* directory holds what it held at the start.
C9_AlwaysPassing ==
  (pc = "done" /\ \A j \in Iterations : IsNormal(j)) =>
    /\ verdict = "Success"
    /\ exitcode = <<0>>
    /\ written = <<>>
    /\ files \in {EmptyDir, StaleDir}

C9_Witness ==
  /\ pc = "done"
  /\ ITERATIONS = 3
  /\ \A j \in Iterations : IsNormal(j)
  /\ \E j \in Iterations : payloads[j + 1] = <<>>
  /\ \E j \in Iterations : Len(payloads[j + 1]) = RawMaxLen
  /\ verdict = "Success"

\* C10: whenever every execution ran into the timeout, the artifacts at the
\* verdict are timeout_0 .. timeout_{N-1}; every timeout is followed by the
\* next turn of the loop, and unless a harness fault or an interrupt ends the
\* campaign, the verdict is eventually reached.
C10_TimeoutArtifacts ==
  (pc = "done" /\ \A j \in Iterations : IsTimeout(j)) =>
    /\ written = AllSavedAs("timeout")
    /\ \A j \in Iterations : files[FileName("timeout", j)] = payloads[j + 1]
    /\ crashes = ITERATIONS

C10_AlwaysHanging ==
  /\ []C10_TimeoutArtifacts
  /\ (pc = "kill") ~> (pc = "loop" \/ Stopped)
  /\ [](pc \notin {"aborted", "interrupted"}) => <>(pc = "done")

C10_Witness ==
  /\ pc = "done"
  /\ ITERATIONS = 3
  /\ \A j \in Iterations : IsTimeout(j)
  /\ crashes = 3

\* C11: of the iterations the loop has left, exactly those whose index is a
\* multiple of the interval (0 included) have had their progress line
\* printed, whatever their outcome.
C11_ProgressEveryInterval ==
  \A j \in 0..(i - 1) : (j \in printed) <=> (j % ProgressEvery = 0)

\* the opens for writing made in iteration j
WritesOf(j) == { k \in 1..Len(written) : written[k].iter = j }

\* C12: no iteration is run twice and none has more than one Popen, one
\* outcome, one file opened or one increment of the counter; the one file of
\* an iteration that timed out is timeout_<i>, never crash_<i>.
C12_RecordedOnce ==
  /\ \A a, b \in 1..Len(execLog) : execLog[a] = execLog[b] => a = b
  /\ Len(outcomes) <= Len(execLog)
  /\ Len(execLog) <= i + 1
  /\ \A j \in 0..i : Cardinality(WritesOf(j)) <= 1
  /\ crashes <= Len(written)
  /\ crashes <= Len(outcomes)
  /\ \A j \in Iterations :
       IsTimeout(j) =>
         \A k \in WritesOf(j) : written[k].name = FileName("timeout", j)

C12_Witness ==
  /\ pc = "done"
  /\ ITERATIONS = 3
  /\ IsTimeout(0)
  /\ IsTimeout(2)
  /\ IsAbnormalExit(1)
  /\ crashes = 3
  /\ Len(written) = 3

\* the positions of the except branch (lines 47-53) and of the branch of
\* line 55 (lines 56-59)
TimeoutBranch == {"kill", "t_open", "t_write", "t_close", "t_count"}

CrashBranch == {"c_open", "c_write", "c_close", "c_count"}

\* the kinds an execution falls under
KindsOf(j) ==
  { c \in {"Normal", "AbnormalExit", "Timeout"} :
      \/ c = "Normal" /\ IsNormal(j)
      \/ c = "AbnormalExit" /\ IsAbnormalExit(j)
      \/ c = "Timeout" /\ IsTimeout(j) }

\* C13: every execution falls under exactly one of Normal, AbnormalExit and
\* Timeout, and the code treats it as that one: the except branch is entered
\* only after a timeout, the branch of line 55 only after a non-zero exit
\* within the deadline, and an iteration passes with nothing saved only after
\* exit code 0.
C13_OutcomesPartition ==
  /\ \A j \in Iterations : Cardinality(KindsOf(j)) = 1
  /\ pc \in TimeoutBranch => Len(outcomes) = i + 1 /\ IsTimeout(i)
  /\ pc \in CrashBranch => Len(outcomes) = i + 1 /\ IsAbnormalExit(i)
  /\ pc = "progress" =>
       /\ Len(outcomes) = i + 1
       /\ ~IsTimeout(i)
       /\ IsNormal(i) <=> WritesOf(i) = {}
  /\ \A j \in Iterations : j < i => (IsNormal(j) <=> WritesOf(j) = {})

C13_Witness ==
  /\ pc = "progress"
  /\ i = 2
  /\ IsTimeout(0)
  /\ IsAbnormalExit(1)
  /\ IsNormal(2)
  /\ WritesOf(2) = {}
  /\ Len(written) = 2

\* iteration j has opened the file of this kind for writing
Wrote(kind, j) == \E k \in WritesOf(j) : written[k].name = FileName(kind, j)

\* C14 as stated: for every iteration the loop has left, timeout_<i> exists
\* exactly if it ended in Timeout and crash_<i> exactly if it ended in
\* AbnormalExit (so neither exists if it ended Normal).
C14_NameTellsKind ==
  \A j \in Iterations :
    j < i =>
      /\ FileName("timeout", j) \in DOMAIN files <=> IsTimeout(j)
      /\ FileName("crash", j) \in DOMAIN files <=> IsAbnormalExit(j)

\* C14 amended: the same of the files the campaign itself has written, which
\* all exist; any other file of the directory was there at the start.
C14_WrittenNameTellsKind ==
  /\ \A j \in Iterations :
       j < i =>
         /\ Wrote("timeout", j) <=> IsTimeout(j)
         /\ Wrote("crash", j) <=> IsAbnormalExit(j)
  /\ \A k \in 1..Len(written) : written[k].name \in DOMAIN files
  /\ \A n \in DOMAIN files :
       \/ \E k \in 1..Len(written) : written[k].name = n
       \/ n \in DOMAIN StaleDir /\ files[n] = StaleDir[n]

C14_Witness ==
  /\ pc = "done"
  /\ ITERATIONS = 3
  /\ IsTimeout(0)
  /\ IsAbnormalExit(1)
  /\ IsNormal(2)
  /\ DOMAIN files =
       {FileName("crash", 0), FileName("timeout", 0), FileName("crash", 1)}

\* C15: a save step never opens for writing a name that is already in the
\* directory, be it from this campaign or from before it, and no iteration
\* index is used for more than one name.
C15_NeverOverwrites ==
  /\ pc = "t_open" => FileName("timeout", i) \notin DOMAIN files
  /\ pc = "c_open" => FileName("crash", i) \notin DOMAIN files
  /\ \A j \in 0..i : Cardinality(WritesOf(j)) <= 1

\* C16: an iteration with an empty payload is run like any other: the loop
\* leaves no iteration without a Popen and a communicate(), the payload given
\* to the target is the empty one that was generated, and if the target then
\* fails, the artifact of the iteration is a file of length 0 and the failure
\* is counted; if it passes, nothing is written.
C16_EmptyPayloadRun ==
  /\ pc \in {"loop", "done"} => Len(payloads) = i /\ Len(execLog) = i
  /\ Len(payloads) = Len(outcomes)
  /\ Len(payloads) = i + 1 => payloads[i + 1] = data
  /\ (pc = "communicate" /\ data = <<>>) =>
        /\ procs[i] = "running"
        /\ execLog[Len(execLog)] = i
  /\ \A j \in Iterations :
       payloads[j + 1] = <<>> =>
         /\ execLog[j + 1] = j
         /\ (j < i /\ Failing(j)) =>
               /\ ArtifactOf(j) \in DOMAIN files
               /\ files[ArtifactOf(j)] = <<>>
               /\ Recorded(j)
         /\ (j < i /\ IsNormal(j)) => WritesOf(j) = {}

C16_Witness ==
  /\ pc = "done"
  /\ ITERATIONS = 3
  /\ payloads[1] = <<>>
  /\ IsTimeout(0)
  /\ files[FileName("timeout", 0)] = <<>>
  /\ payloads[2] # <<>>
  /\ crashes >= 1

\* the byte values of {}"':,[]0123456789abcdef
Alphabet == {34, 39, 44, 58, 91, 93, 123, 125} \cup (48..57) \cup (97..102)

\* C17: in every turn of the loop the one draw r = random.random() decides the
\* strategy: r < 0.5 raw bytes of a length in RawMinLen..RawMaxLen,
\* 0.5 <= r < 0.9 structured noise of a length in JsonMinLen..JsonMaxLen with
\* every byte in the alphabet, r >= 0.9 the empty payload; so no payload is
\* longer than RawMaxLen (the scaled 1024) and only the empty strategy gives
\* length 0.
C17_StrategyByDraw ==
  [][ (pc = "loop" /\ pc' = "spawn") =>
        LET r == random(rng)
        IN  /\ strategy' \in {"raw", "json", "empty"}
            /\ (r * 2 < RandScale) <=> strategy' = "raw"
            /\ (r * 2 >= RandScale /\ r * 10 < RandScale * 9) <=>
                  strategy' = "json"
            /\ (r * 10 >= RandScale * 9) <=> strategy' = "empty"
            /\ strategy' = "raw" => Len(data') \in RawMinLen..RawMaxLen
            /\ strategy' = "json" =>
                  /\ Len(data') \in JsonMinLen..JsonMaxLen
                  /\ \A k \in 1..Len(data') : data'[k] \in Alphabet
            /\ strategy' = "empty" => data' = <<>>
            /\ Len(data') <= RawMaxLen
            /\ Len(data') = 0 => strategy' = "empty" ]_vars

C17_Witness ==
  /\ pc = "spawn"
  /\ i = 2
  /\ payloads[1] = <<>>
  /\ Len(payloads[2]) = JsonMaxLen
  /\ \A k \in 1..Len(payloads[2]) : payloads[2][k] \in Alphabet
  /\ strategy = "raw"
  /\ Len(data) = RawMaxLen

\* at the head of the loop and at the verdict: the counter is the number of
\* failing iterations so far and the number of files written, all of them
\* closed, and is at most i
C18_AtLoopHead ==
  pc \in {"loop", "done"} =>
    /\ crashes = Cardinality({ j \in Iterations : j < i /\ Failing(j) })
    /\ crashes = Len(written)
    /\ crashes = Cardinality({ written[k].name : k \in 1..Len(written) })
    /\ \A k \in 1..Len(written) :
         /\ written[k].closed
         /\ written[k].name \in DOMAIN files
    /\ crashes <= i

\* C18: at the start of every iteration i and at the verdict the counter
\* equals the number of iterations before i that ended in Timeout or
\* AbnormalExit and the number of artifact files the campaign has written, and
\* does not exceed i; no step of the campaign decreases it.
C18_CounterTracksFailures ==
  /\ []C18_AtLoopHead
  /\ [][crashes' >= crashes]_vars

C18_Witness ==
  /\ pc = "loop"
  /\ i = 2
  /\ ITERATIONS = 3
  /\ IsTimeout(0)
  /\ IsAbnormalExit(1)
  /\ crashes = 2
  /\ Len(written) = 2

====
